---- MODULE Spec2Model ----
(***************************************************************************)
(* A model of src/wavefront.rs: the line-oriented Wavefront OBJ loader     *)
(* (Object::read, parse_line, add_vertex, add_texcoord, add_face) and the  *)
(* triangle iterator (ObjectIter).                                         *)
(*                                                                         *)
(* Text is modelled as sequences of one-character strings, so that         *)
(* tokenising (split_whitespace, split("/")) and number parsing are        *)
(* computed rather than assumed.                                           *)
(***************************************************************************)
EXTENDS Integers, Sequences, FiniteSets, TLC

\* ------------------------------------------------------------------ bounds

\* Longest file (in lines) read under Spec.
MaxLines == 3
\* Longest file (in lines) read under SpecMesh.
MaxMeshLines == 4
\* Number of iterators the caller holds over one Object.
NumIters == 2
\* Nested Display::fmt frames the stack holds before it overflows.
StackLimit == 2
\* Width of usize in bits (the pointer width of the target).
UsizeBits == 16

RECURSIVE Pow2(_)
Pow2(n) == IF n = 0 THEN 1 ELSE 2 * Pow2(n - 1)

\* usize::MAX
MaxUsize == Pow2(UsizeBits) - 1

\* ------------------------------------------------------- text primitives

Digits == <<"0", "1", "2", "3", "4", "5", "6", "7", "8", "9">>

IsDigit(c) == \E d \in 1..10 : Digits[d] = c

DigitVal(c) == (CHOOSE d \in 1..10 : Digits[d] = c) - 1

\* char::is_whitespace, for the characters the inputs use
IsWhitespace(c) == c \in {" ", "\t"}

\* str::split_whitespace: the maximal runs of non-whitespace characters
RECURSIVE SplitWsFrom(_, _, _, _)
SplitWsFrom(l, i, cur, acc) ==
    IF i > Len(l)
    THEN IF cur = <<>> THEN acc ELSE Append(acc, cur)
    ELSE IF IsWhitespace(l[i])
         THEN SplitWsFrom(l, i + 1, <<>>, IF cur = <<>> THEN acc ELSE Append(acc, cur))
         ELSE SplitWsFrom(l, i + 1, Append(cur, l[i]), acc)

split_whitespace(l) == SplitWsFrom(l, 1, <<>>, <<>>)

\* str::split(sep): every piece between separators, empty pieces included,
\* so the result always has at least one piece
RECURSIVE SplitFrom(_, _, _, _, _)
SplitFrom(s, sep, i, cur, acc) ==
    IF i > Len(s)
    THEN Append(acc, cur)
    ELSE IF s[i] = sep
         THEN SplitFrom(s, sep, i + 1, <<>>, Append(acc, cur))
         ELSE SplitFrom(s, sep, i + 1, Append(cur, s[i]), acc)

split(s, sep) == SplitFrom(s, sep, 1, <<>>, <<>>)

\* ------------------------------------------------------- number parsing

\* The digits of s from position i on, accumulated into acc; a non-digit or a
\* value above usize::MAX is an error.
RECURSIVE ParseDigits(_, _, _)
ParseDigits(s, i, acc) ==
    IF i > Len(s)
    THEN [ok |-> TRUE, val |-> acc, err |-> ""]
    ELSE IF ~IsDigit(s[i])
         THEN [ok |-> FALSE, val |-> 0, err |-> "invalid digit found in string"]
         ELSE IF acc * 10 + DigitVal(s[i]) > MaxUsize
              THEN [ok |-> FALSE, val |-> 0,
                    err |-> "number too large to fit in target type"]
              ELSE ParseDigits(s, i + 1, acc * 10 + DigitVal(s[i]))

\* str::parse::<usize>: an optional '+', then one or more decimal digits
parse_usize(s) ==
    IF s = <<>>
    THEN [ok |-> FALSE, val |-> 0, err |-> "cannot parse integer from empty string"]
    ELSE IF s[1] = "+"
         THEN IF Len(s) = 1
              THEN [ok |-> FALSE, val |-> 0, err |-> "invalid digit found in string"]
              ELSE ParseDigits(s, 2, 0)
         ELSE ParseDigits(s, 1, 0)

\* A decimal value m * 10^(-f) with its trailing fractional zeros removed, so
\* that equal numbers have equal representations ("1.0" and "1").
RECURSIVE Normalise(_, _)
Normalise(m, f) ==
    IF m = 0 THEN [m |-> 0, f |-> 0]
    ELSE IF f > 0 /\ m % 10 = 0 THEN Normalise(m \div 10, f - 1)
    ELSE [m |-> m, f |-> f]

\* The unsigned part of a decimal literal: digits, at most one '.', at least
\* one digit overall.
RECURSIVE ParseDecimal(_, _, _, _, _, _)
ParseDecimal(s, i, m, f, seenPoint, seenDigit) ==
    IF i > Len(s)
    THEN IF seenDigit
         THEN [ok |-> TRUE, val |-> Normalise(m, f), err |-> ""]
         ELSE [ok |-> FALSE, val |-> Normalise(0, 0), err |-> "invalid float literal"]
    ELSE IF IsDigit(s[i])
         THEN ParseDecimal(s, i + 1, m * 10 + DigitVal(s[i]),
                           IF seenPoint THEN f + 1 ELSE f, seenPoint, TRUE)
         ELSE IF s[i] = "." /\ ~seenPoint
              THEN ParseDecimal(s, i + 1, m, f, TRUE, seenDigit)
              ELSE [ok |-> FALSE, val |-> Normalise(0, 0), err |-> "invalid float literal"]

Negate(r) == [r EXCEPT !.val = [@ EXCEPT !.m = 0 - @]]

\* str::parse::<f32> on plain decimal literals: an optional sign, digits and
\* at most one '.'.  Exponents, "inf" and "NaN" are outside the inputs used.
parse_f32(s) ==
    IF s = <<>>
    THEN [ok |-> FALSE, val |-> Normalise(0, 0),
          err |-> "cannot parse float from empty string"]
    ELSE IF s[1] = "-" THEN LET r == ParseDecimal(s, 2, 0, 0, FALSE, FALSE)
                            IN  IF r.ok THEN Negate(r) ELSE r
    ELSE IF s[1] = "+" THEN ParseDecimal(s, 2, 0, 0, FALSE, FALSE)
    ELSE ParseDecimal(s, 1, 0, 0, FALSE, FALSE)

\* ------------------------------------------------------------ data model

\* FaceIndex::new
FaceIndex_new == [v_idxs |-> <<>>, t_idxs |-> <<>>, n_idxs |-> <<>>]

\* The Object that read starts from: three empty stores.  The texture is
\* bound once and never read by the parser or the iterator.
Object_new == [vertices |-> <<>>, texcoords |-> <<>>, faces |-> <<>>]

\* Return values of the parsing methods: Ok(()) with the Object as it then
\* is, Err(ParseError(e)), or a panic raised inside the method.
Ok(o) == [kind |-> "Ok", obj |-> o, e |-> ""]
Err(o, msg) == [kind |-> "Err", obj |-> o, e |-> msg]
Panic(o, msg) == [kind |-> "Panic", obj |-> o, e |-> msg]

\* ------------------------------------------------------------- the parser

\* sub_one without the decrement: the file's 1-based index stored as it is
sub_one_kept(n, overflow_checks) == [panic |-> FALSE, val |-> n]

\* `x - 1` on usize: with overflow checks (debug builds) 0 - 1 panics,
\* without them (release builds) it wraps to usize::MAX.
sub_one(n, overflow_checks) ==
    IF n >= 1 THEN [panic |-> FALSE, val |-> n - 1]
    ELSE IF overflow_checks THEN [panic |-> TRUE, val |-> 0]
    ELSE [panic |-> FALSE, val |-> (n - 1) % Pow2(UsizeBits)]

\* push_idx with every sub-field pushed onto v_idxs
push_idx_first(f, k, val) == [f EXCEPT !.v_idxs = Append(@, val)]

\* vec.push(..) on the k-th of [&mut f.v_idxs, &mut f.t_idxs, &mut f.n_idxs]
push_idx(f, k, val) ==
    CASE k = 1 -> [f EXCEPT !.v_idxs = Append(@, val)]
      [] k = 2 -> [f EXCEPT !.t_idxs = Append(@, val)]
      [] OTHER -> [f EXCEPT !.n_idxs = Append(@, val)]

\* The inner loop of add_face over one corner: the three index vectors
\* zipped with the corner's sub-fields, so that at most three sub-fields are
\* read and a corner with fewer fills only the first vectors.
RECURSIVE zip_push(_, _, _, _)
zip_push(f, subs, k, overflow_checks) ==
    IF k > 3 \/ k > Len(subs)
    THEN [kind |-> "Ok", f |-> f, e |-> ""]
    ELSE LET r == parse_usize(subs[k]) IN
         IF ~r.ok
         THEN [kind |-> "Err", f |-> f, e |-> r.err]
         ELSE LET d == sub_one(r.val, overflow_checks) IN
              IF d.panic
              THEN [kind |-> "Panic", f |-> f, e |-> "attempt to subtract with overflow"]
              ELSE zip_push(push_idx(f, k, d.val), subs, k + 1, overflow_checks)

\* The outer loop of add_face over the corners p[c..]
RECURSIVE face_corners(_, _, _, _)
face_corners(f, p, c, overflow_checks) ==
    IF c > Len(p)
    THEN [kind |-> "Ok", f |-> f, e |-> ""]
    ELSE LET r == zip_push(f, split(p[c], "/"), 1, overflow_checks) IN
         IF r.kind = "Ok" THEN face_corners(r.f, p, c + 1, overflow_checks) ELSE r

add_face(self, p, overflow_checks) ==
    IF Len(p) # 3
    THEN Err(self, "Bad vertex line")
    ELSE LET r == face_corners(FaceIndex_new, p, 1, overflow_checks) IN
         CASE r.kind = "Err" -> Err(self, r.e)
           [] r.kind = "Panic" -> Panic(self, r.e)
           [] OTHER -> Ok([self EXCEPT !.faces = Append(@, r.f)])

\* The Vertex literal of add_vertex / add_texcoord: x, y and z are parsed in
\* order, the first failure returns, and only a complete Vertex is built.
parse_vertex(p) ==
    LET x == parse_f32(p[1])
        y == parse_f32(p[2])
        z == parse_f32(p[3])
    IN  IF ~x.ok THEN [ok |-> FALSE, val |-> <<>>, err |-> x.err]
        ELSE IF ~y.ok THEN [ok |-> FALSE, val |-> <<>>, err |-> y.err]
        ELSE IF ~z.ok THEN [ok |-> FALSE, val |-> <<>>, err |-> z.err]
        ELSE [ok |-> TRUE, val |-> <<[x |-> x.val, y |-> y.val, z |-> z.val]>>,
              err |-> ""]

\* add_vertex pushing a Vertex before its coordinates are known to parse
add_vertex_partial(self, p) ==
    IF Len(p) # 3
    THEN Err(self, "Bad line")
    ELSE LET v == parse_vertex(p)
             zero == [m |-> 0, f |-> 0]
         IN  IF v.ok THEN Ok([self EXCEPT !.vertices = Append(@, v.val[1])])
             ELSE Err([self EXCEPT !.vertices =
                           Append(@, [x |-> zero, y |-> zero, z |-> zero])], v.err)

add_vertex(self, p) ==
    IF Len(p) # 3
    THEN Err(self, "Bad line")
    ELSE LET v == parse_vertex(p) IN
         IF v.ok THEN Ok([self EXCEPT !.vertices = Append(@, v.val[1])])
         ELSE Err(self, v.err)

add_texcoord(self, p) ==
    IF Len(p) # 3
    THEN Err(self, "Bad texcoord line")
    ELSE LET v == parse_vertex(p) IN
         IF v.ok THEN Ok([self EXCEPT !.texcoords = Append(@, v.val[1])])
         ELSE Err(self, v.err)

\* parse_line rejecting the directives it does not recognise
parse_line_strict(self, l, overflow_checks) ==
    LET p == split_whitespace(l) IN
    IF p = <<>> THEN Ok(self)
    ELSE LET rest == Tail(p) IN
         CASE p[1] = <<"#">> -> Ok(self)
           [] p[1] = <<"f">> -> add_face(self, rest, overflow_checks)
           [] p[1] = <<"v">> -> add_vertex(self, rest)
           [] p[1] = <<"v", "n">> -> add_vertex(self, rest)
           [] p[1] = <<"v", "t">> -> add_texcoord(self, rest)
           [] OTHER -> Err(self, "Unknown line type")

parse_line(self, l, overflow_checks) ==
    LET p == split_whitespace(l) IN
    IF p = <<>> THEN Ok(self)
    ELSE LET rest == Tail(p) IN
         CASE p[1] = <<"#">> -> Ok(self)
           [] p[1] = <<"f">> -> add_face(self, rest, overflow_checks)
           [] p[1] = <<"v">> -> add_vertex(self, rest)
           [] p[1] = <<"v", "n">> -> Ok(self)
           [] p[1] = <<"v", "t">> -> add_texcoord(self, rest)
           [] OTHER -> Ok(self)

\* ----------------------------------------------------------- the iterator

\* Object::vertex / Object::texcoord: an unchecked `store[idx]`, which
\* panics when idx is not below the store's length.
index(store, idx) ==
    IF idx < Len(store) THEN [panic |-> FALSE, val |-> <<store[idx + 1]>>]
    ELSE [panic |-> TRUE, val |-> <<>>]

vertex(self, idx) == index(self.vertices, idx)

texcoord(self, idx) == index(self.texcoords, idx)

\* One element of the Face literal in next: `f_idx.v_idxs[k]` and then the
\* store lookup, either of which may panic.
corner_vertex(self, f_idx, k) ==
    LET i == index(f_idx.v_idxs, k) IN
    IF i.panic THEN i ELSE vertex(self, i.val[1])

corner_texcoord(self, f_idx, k) ==
    LET i == index(f_idx.t_idxs, k) IN
    IF i.panic THEN i ELSE texcoord(self, i.val[1])

\* ObjectIter::next on iterator position idx: None past the last face, a
\* panic when any of the six lookups is out of bounds, Some(Face) otherwise.
ObjectIter_next(self, idx) ==
    IF idx >= Len(self.faces)
    THEN [kind |-> "None", face |-> <<>>, idx |-> idx]
    ELSE LET f_idx == self.faces[idx + 1]
             vs == [k \in 1..3 |-> corner_vertex(self, f_idx, k - 1)]
             ts == [k \in 1..3 |-> corner_texcoord(self, f_idx, k - 1)]
         IN  IF \E k \in 1..3 : vs[k].panic \/ ts[k].panic
             THEN [kind |-> "Panic", face |-> <<>>, idx |-> idx]
             ELSE [kind |-> "Some",
                   face |-> <<[vertices |-> [k \in 1..3 |-> vs[k].val[1]],
                               texcoords |-> [k \in 1..3 |-> ts[k].val[1]]]>>,
                   idx |-> idx + 1]

\* ------------------------------------------------------------ input lines

\* Tokens joined by single spaces
RECURSIVE Join(_)
Join(toks) ==
    IF toks = <<>> THEN <<>>
    ELSE IF Len(toks) = 1 THEN toks[1]
    ELSE toks[1] \o <<" ">> \o Join(Tail(toks))

\* The decimal text of a one-digit number
Str(n) == <<Digits[n + 1]>>

\* The corner text "i/j"
Corner(i, j) == Str(i) \o <<"/">> \o Str(j)

\* The face line "f i1/j1 i2/j2 i3/j3"
FaceText(i, j) ==
    Join(<<<<"f">>, Corner(i[1], j[1]), Corner(i[2], j[2]), Corner(i[3], j[3])>>)

\* " " : a blank line (no tokens)
LBlank == <<" ">>
\* "# v 1" : a comment
LComment == Join(<<<<"#">>, <<"v">>, <<"1">>>>)
\* "vn 1 x" : a vertex normal, with a token that is no number
LNormal == Join(<<<<"v", "n">>, <<"1">>, <<"x">>>>)
\* "g 1 2 3 4" : an unrecognised directive
LUnknown == Join(<<<<"g">>, <<"1">>, <<"2">>, <<"3">>, <<"4">>>>)
\* "v 0 0 0"
LV000 == Join(<<<<"v">>, <<"0">>, <<"0">>, <<"0">>>>)
\* " v<TAB>1.0  0 -2.50 " : a vertex line with irregular whitespace
LV100 == <<" ", "v", "\t", "1", ".", "0", " ", " ", "0", " ",
           "-", "2", ".", "5", "0", " ">>
\* "v 1.0 2.0" : two coordinates
LVShort == Join(<<<<"v">>, <<"1", ".", "0">>, <<"2", ".", "0">>>>)
\* "v 1 0 x" : the last coordinate is no number
LVBadZ == Join(<<<<"v">>, <<"1">>, <<"0">>, <<"x">>>>)
\* "vt 0 1 0"
LVT010 == Join(<<<<"v", "t">>, <<"0">>, <<"1">>, <<"0">>>>)
\* "vt 0 1 0 0" : four coordinates
LVTLong == Join(<<<<"v", "t">>, <<"0">>, <<"1">>, <<"0">>, <<"0">>>>)
\* "vt 0 x 0" : the middle coordinate is no number
LVTBadY == Join(<<<<"v", "t">>, <<"0">>, <<"x">>, <<"0">>>>)
\* "f 2/1 1/1 2/1"
LF212 == FaceText(<<2, 1, 2>>, <<1, 1, 1>>)
\* "f 1/1 1/1 1/1"
LF111 == FaceText(<<1, 1, 1>>, <<1, 1, 1>>)
\* "f 1 1 1" : one sub-field per corner
LFArity1 == Join(<<<<"f">>, <<"1">>, <<"1">>, <<"1">>>>)
\* "f 1/1/1 1/1/1 1/1/1" : three sub-fields per corner
LFArity3 == Join(<<<<"f">>, <<"1", "/", "1", "/", "1">>, <<"1", "/", "1", "/", "1">>,
                   <<"1", "/", "1", "/", "1">>>>)
\* "f 1/1/1/x 1/1/1/x 1/1/1/x" : four sub-fields per corner
LFArity4 == Join(<<<<"f">>, <<"1", "/", "1", "/", "1", "/", "x">>,
                   <<"1", "/", "1", "/", "1", "/", "x">>,
                   <<"1", "/", "1", "/", "1", "/", "x">>>>)
\* "f 1/1 1 1/1/1" : corners of differing arity
LFMixed == Join(<<<<"f">>, Corner(1, 1), <<"1">>, <<"1", "/", "1", "/", "1">>>>)
\* "f 1/1 0/1 1/1" : an index of 0
LFZero == FaceText(<<1, 0, 1>>, <<1, 1, 1>>)
\* "f 1/1 1/1" : two corners
LFShort == Join(<<<<"f">>, Corner(1, 1), Corner(1, 1)>>)
\* "f 1/1 1/1 1/1 1/1" : a quad
LFQuad == Join(<<<<"f">>, Corner(1, 1), Corner(1, 1), Corner(1, 1), Corner(1, 1)>>)
\* "f 1/1 1/1 1/x" : the last index is no number
LFBadIdx == Join(<<<<"f">>, Corner(1, 1), Corner(1, 1), <<"1", "/", "x">>>>)
\* "f 1//1 1//1 1//1" : an empty sub-field
LFEmpty == Join(<<<<"f">>, <<"1", "/", "/", "1">>, <<"1", "/", "/", "1">>,
                  <<"1", "/", "/", "1">>>>)
\* "f -1/1 1/1 1/1" : a negative index
LFNeg == Join(<<<<"f">>, <<"-", "1", "/", "1">>, Corner(1, 1), Corner(1, 1)>>)

\* The lines a file read under Spec is made of
Lines ==
    {LBlank, LComment, LNormal, LUnknown,
     LV000, LV100, LVShort, LVBadZ, LVT010, LVTLong, LVTBadY,
     LF212, LFArity1, LFArity3, LFArity4, LFMixed, LFZero,
     LFShort, LFQuad, LFBadIdx, LFEmpty, LFNeg}

\* The lines a file read under SpecMesh is made of
MeshLines == {LV000, LV100, LVT010, LF212, LF111, LVShort}

\* ------------------------------------------------------------------ state

VARIABLES
    pc,           \* where the process is: start, reading, map_err, loaded,
                  \* failed (read returned Err), panicked, aborted
    obj,          \* the Object under construction, then the loaded Object
    file,         \* the lines f.lines() has yielded so far
    line_number,  \* the number read gives the line last yielded
    e,            \* the ParseError parse_line returned
    depth,        \* nested calls of <ParseError as Display>::fmt
    result,       \* what read returned to its caller
    iters,        \* the caller's iterators over the loaded Object
    panic         \* the message of the panic or abort that ended the process

vars == <<pc, obj, file, line_number, e, depth, result, iters, panic>>

Iters == 1..NumIters

NoIter == [active |-> FALSE, idx |-> 0, out |-> <<>>, last |-> "-"]

\* IntoIterator for &Object
into_iter == [active |-> TRUE, idx |-> 0, out |-> <<>>, last |-> "-"]

Init ==
    /\ pc = "start"
    /\ obj = Object_new
    /\ file = <<>>
    /\ line_number = 0
    /\ e = ""
    /\ depth = 0
    /\ result = [tag |-> "none", error |-> ""]
    /\ iters = [i \in Iters |-> NoIter]
    /\ panic = ""

\* read up to the loop: the texture is loaded, the stores are created empty
\* and the file is opened; either I/O step may fail and return its error.
Open ==
    /\ pc = "start"
    /\ \E outcome \in {"ok", "ImagefmtError", "IoError"} :
         IF outcome = "ok"
         THEN /\ pc' = "reading"
              /\ obj' = Object_new
              /\ UNCHANGED result
         ELSE /\ pc' = "failed"
              /\ result' = [tag |-> "Err", error |-> outcome]
              /\ UNCHANGED obj
    /\ UNCHANGED <<file, line_number, e, depth, iters, panic>>

\* One turn of read's loop on the next line l of the file: number it, hand it
\* to parse_line, and on Err enter the map_err closure.
ReadLine(L, N) ==
    /\ pc = "reading"
    /\ Len(file) < N
    /\ \E l \in L, overflow_checks \in BOOLEAN :
         LET r == parse_line(obj, l, overflow_checks) IN
         /\ file' = Append(file, l)
         /\ line_number' = line_number + 1
         /\ obj' = r.obj
         /\ CASE r.kind = "Ok" -> UNCHANGED <<pc, e, panic>>
              [] r.kind = "Err" -> pc' = "map_err" /\ e' = r.e /\ UNCHANGED panic
              [] OTHER -> pc' = "panicked" /\ panic' = r.e /\ UNCHANGED e
    /\ UNCHANGED <<depth, result, iters>>

\* `try!(line)`: reading the next line fails
ReadIoError ==
    /\ pc = "reading"
    /\ pc' = "failed"
    /\ result' = [tag |-> "Err", error |-> "IoError"]
    /\ UNCHANGED <<obj, file, line_number, e, depth, iters, panic>>

\* The file ends: read returns Ok(obj)
Eof ==
    /\ pc = "reading"
    /\ pc' = "loaded"
    /\ result' = [tag |-> "Ok", error |-> ""]
    /\ UNCHANGED <<obj, file, line_number, e, depth, iters, panic>>

\* <ParseError as Display>::fmt, entered from the closure's
\* format!("{} at line {}", e, line_number): it formats `self` with "{}",
\* which is a call of itself, so each call adds a frame until the stack
\* overflows and the process is aborted.
ParseError_fmt ==
    /\ pc = "map_err"
    /\ IF depth < StackLimit
       THEN depth' = depth + 1 /\ UNCHANGED <<pc, panic>>
       ELSE pc' = "aborted" /\ panic' = "stack overflow" /\ UNCHANGED depth
    /\ UNCHANGED <<obj, file, line_number, e, result, iters>>

\* `(&obj).into_iter()`: the caller (re)creates iterator i
IntoIter(i) ==
    /\ pc = "loaded"
    /\ iters' = [iters EXCEPT ![i] = into_iter]
    /\ UNCHANGED <<pc, obj, file, line_number, e, depth, result, panic>>

\* IterNext with one position shared by all the iterators
IterNextShared(i) ==
    /\ pc = "loaded"
    /\ iters[i].active
    /\ LET r == ObjectIter_next(obj, iters[i].idx) IN
       CASE r.kind = "None" ->
              /\ iters' = [iters EXCEPT ![i].last = "None"]
              /\ UNCHANGED <<pc, panic>>
         [] r.kind = "Some" ->
              /\ iters' = [j \in Iters |->
                             IF j = i
                             THEN [iters[j] EXCEPT !.idx = r.idx,
                                                   !.out = Append(@, r.face[1]),
                                                   !.last = "Some"]
                             ELSE [iters[j] EXCEPT !.idx = r.idx]]
              /\ UNCHANGED <<pc, panic>>
         [] OTHER ->
              /\ pc' = "panicked"
              /\ panic' = "index out of bounds"
              /\ UNCHANGED iters
    /\ UNCHANGED <<obj, file, line_number, e, depth, result>>

\* The caller advances iterator i
IterNext(i) ==
    /\ pc = "loaded"
    /\ iters[i].active
    /\ LET r == ObjectIter_next(obj, iters[i].idx) IN
       CASE r.kind = "None" ->
              /\ iters' = [iters EXCEPT ![i].last = "None"]
              /\ UNCHANGED <<pc, panic>>
         [] r.kind = "Some" ->
              /\ iters' = [iters EXCEPT ![i].idx = r.idx,
                                        ![i].out = Append(@, r.face[1]),
                                        ![i].last = "Some"]
              /\ UNCHANGED <<pc, panic>>
         [] OTHER ->
              /\ pc' = "panicked"
              /\ panic' = "index out of bounds"
              /\ UNCHANGED iters
    /\ UNCHANGED <<obj, file, line_number, e, depth, result>>

Load(L, N) ==
    \/ Open
    \/ ReadLine(L, N)
    \/ ReadIoError
    \/ Eof
    \/ ParseError_fmt

Iterate ==
    \/ \E i \in Iters : IntoIter(i)
    \/ \E i \in Iters : IterNext(i)

\* Loading a file of any of the lines
Next == Load(Lines, MaxLines)

Spec == Init /\ [][Next]_vars

\* Loading a file of mesh lines and iterating over the Object
NextMesh == Load(MeshLines, MaxMeshLines) \/ Iterate

SpecMesh == Init /\ [][NextMesh]_vars

\* ------------------------------------------------------------ properties

Last(s) == s[Len(s)]

\* The step in which read hands line l to parse_line
Reads(l) == pc = "reading" /\ file' = Append(file, l)

\* The sample lines by what the file format says of them
IgnoredLines == {LBlank, LComment, LNormal, LUnknown}

RejectedLines ==
    {LVShort, LVBadZ, LVTLong, LVTBadY, LFShort, LFQuad, LFBadIdx, LFEmpty, LFNeg}

BadCountVertexLines == {LVShort, LVTLong}

FaceLines ==
    {LF212, LF111, LFArity1, LFArity3, LFArity4, LFMixed, LFZero,
     LFShort, LFQuad, LFBadIdx, LFEmpty, LFNeg}

\* Face lines of three corners that all have the same number of sub-fields
UniformArityLines == {LF212, LF111, LFArity1, LFArity3, LFArity4, LFZero}

\* The sub-fields per corner of a uniform three-corner face line: each
\* corner has one more sub-field than it has slashes
Arity(l) == (Cardinality({n \in 1..Len(l) : l[n] = "/"}) \div 3) + 1

IsFaceLine(l) == l \in FaceLines

\* The `f` lines of the file, in file order
FaceLinesOf(f) == SelectSeq(f, IsFaceLine)

\* The first n Faces a single iterator yields when run alone from position idx
RECURSIVE SoloFaces(_, _, _)
SoloFaces(o, idx, n) ==
    IF n = 0 THEN <<>>
    ELSE LET r == ObjectIter_next(o, idx) IN
         IF r.kind = "Some" THEN r.face \o SoloFaces(o, r.idx, n - 1) ELSE <<>>

\* A face record with an index outside the store it refers to
Dangling(o, f_idx) ==
    \/ \E k \in 1..Len(f_idx.v_idxs) : f_idx.v_idxs[k] >= Len(o.vertices)
    \/ \E k \in 1..Len(f_idx.t_idxs) : f_idx.t_idxs[k] >= Len(o.texcoords)

\* C1: when next is called on an iterator whose current face was parsed from
\* the line "f i1/j1 i2/j2 i3/j3" and the stores hold at least max(i) vertices
\* and max(j) texcoords, it yields exactly one Face, whose vertices[k] is the
\* (i_k - 1)-th stored vertex and whose texcoords[k] is the (j_k - 1)-th stored
\* texcoord, for each corner k.
C1_FaceResolves ==
    [][\A it \in Iters :
         IterNext(it) =>
           \A i \in [1..3 -> 1..Len(obj.vertices)],
              j \in [1..3 -> 1..Len(obj.texcoords)] :
             (/\ iters[it].idx < Len(FaceLinesOf(file))
              /\ FaceLinesOf(file)[iters[it].idx + 1] = FaceText(i, j))
             => /\ iters'[it].last = "Some"
                /\ iters'[it].idx = iters[it].idx + 1
                /\ Len(iters'[it].out) = Len(iters[it].out) + 1
                /\ \A k \in 1..3 :
                     /\ Last(iters'[it].out).vertices[k] = obj.vertices[i[k]]
                     /\ Last(iters'[it].out).texcoords[k] = obj.texcoords[j[k]]]_vars

\* An iterator has yielded the Face of "f 2/1 1/1 2/1", whose corners are two
\* different vertices.
C1_Witness ==
    \E it \in Iters :
      /\ iters[it].active
      /\ iters[it].out # <<>>
      /\ FaceLinesOf(file)[1] = LF212
      /\ iters[it].out[1].vertices[1] # iters[it].out[1].vertices[2]

\* C2: when the load has stopped on a `v` or `vt` line whose token count is
\* not 3, read has returned a ParseError that names the line's 1-based number.
C2_ErrorNamesLine ==
    (file # <<>> /\ Last(file) \in BadCountVertexLines /\ pc # "map_err")
      => /\ pc = "failed"
         /\ result.tag = "Err"
         /\ result.error = "ParseError"
         /\ result.line = Len(file)

\* C3: a comment line, a blank line, a `vn` line or a line of an unrecognised
\* directive makes parse_line return Ok and leaves the stores as they were.
C3_IgnoredLinesNoEffect ==
    [][\A l \in IgnoredLines :
         Reads(l) => /\ obj' = obj
                     /\ pc' = "reading"
                     /\ e' = ""
                     /\ panic' = ""]_vars

\* An ignored line has been read into an Object that holds a vertex and a face.
C3_Witness ==
    /\ pc = "reading"
    /\ file # <<>>
    /\ Last(file) \in IgnoredLines
    /\ obj.vertices # <<>>
    /\ obj.faces # <<>>

\* C4: iterating a loaded Object never fails, and an iterator that has
\* returned None has yielded as many Faces as the file has `f` lines.
C4_YieldsEveryFace ==
    result.tag = "Ok"
      => /\ pc = "loaded"
         /\ \A it \in Iters :
              iters[it].last = "None"
                => Len(iters[it].out) = Len(FaceLinesOf(file))

\* C5: resolving a face with a dangling index does not end the process.
C5_DanglingIsRecoverable ==
    pc = "panicked"
      => ~ \E it \in Iters :
             /\ iters[it].active
             /\ iters[it].idx < Len(obj.faces)
             /\ Dangling(obj, obj.faces[iters[it].idx + 1])

\* C6: once parse_line has returned an error, no later line is read and the
\* caller receives an error.
C6_FailFast ==
    e # ""
      => /\ line_number = Len(file)
         /\ pc \in {"map_err", "failed"}
         /\ (pc = "failed" => result.tag = "Err")

\* C7 (as claimed): the FaceIndex stored for a face line whose three corners
\* have the same number of sub-fields has three index sequences of length 3.
C7_AllLengthThree ==
    [][\A l \in UniformArityLines :
         (Reads(l) /\ pc' = "reading")
           => LET f == Last(obj'.faces)
              IN  Len(f.v_idxs) = 3 /\ Len(f.t_idxs) = 3 /\ Len(f.n_idxs) = 3]_vars

\* C7 (amended): the FaceIndex stored for a face line whose three corners each
\* have k sub-fields has 3 vertex indices, 3 texcoord indices when k >= 2 and
\* none otherwise, and 3 normal indices when k >= 3 and none otherwise.
C7_LengthsByArity ==
    [][\A l \in UniformArityLines :
         (Reads(l) /\ pc' = "reading")
           => LET f == Last(obj'.faces)
                  k == Arity(l)
              IN  /\ Len(obj'.faces) = Len(obj.faces) + 1
                  /\ Len(f.v_idxs) = 3
                  /\ Len(f.t_idxs) = (IF k >= 2 THEN 3 ELSE 0)
                  /\ Len(f.n_idxs) = (IF k >= 3 THEN 3 ELSE 0)]_vars

\* The face of "f 2/1 1/1 2/1" has been stored: two sub-fields per corner,
\* no normal index.
C7_Witness ==
    /\ pc = "reading"
    /\ file # <<>>
    /\ Last(file) = LF212
    /\ Len(Last(obj.faces).t_idxs) = 3
    /\ Len(Last(obj.faces).n_idxs) = 0

\* C8: while the Object is loaded no step changes its stores, no step changes
\* more than one iterator, and every iterator has yielded what a single
\* iterator run alone yields in as many steps.
C8_IndependentIterators ==
    [][pc = "loaded"
         => /\ obj' = obj
            /\ \A i, j \in Iters :
                 (i # j /\ iters'[i] # iters[i]) => iters'[j] = iters[j]
            /\ \A it \in Iters :
                 iters'[it].out = SoloFaces(obj', 0, Len(iters'[it].out))]_vars

\* Two iterators over one Object stand at different positions, both past a
\* yielded Face.
C8_Witness ==
    /\ pc = "loaded"
    /\ iters[1].active /\ iters[2].active
    /\ iters[1].idx = 2
    /\ iters[2].idx = 1
    /\ Len(iters[1].out) = 2 /\ Len(iters[2].out) = 1

\* C9: a `v`, `vt` or `f` line with a wrong token count, a coordinate that is
\* no number or an index that is no unsigned integer makes parse_line return
\* a ParseError, and whenever parse_line returns a ParseError the stores are
\* as they were before the line.
C9_RejectedLineNoInsert ==
    [][/\ \A l \in RejectedLines :
            Reads(l) => pc' = "map_err" /\ e' # "" /\ obj' = obj
       /\ (pc = "reading" /\ pc' = "map_err") => (e' # "" /\ obj' = obj)]_vars

\* A vertex line whose last coordinate is no number has been rejected by an
\* Object that already holds a vertex.
C9_Witness ==
    /\ pc = "map_err"
    /\ Last(file) = LVBadZ
    /\ obj.vertices # <<>>

\* C10: a face line with an index of 0 is the last line read and parse_line
\* returned a ParseError for it.
C10_ZeroIndexRejected ==
    \A n \in 1..Len(file) :
      file[n] = LFZero => (n = Len(file) /\ e # "")

====
